---- MODULE Spec2Model ----
(***************************************************************************)
(* Model of the XTTS long-form narration scripts: the sentence/clause      *)
(* segmenters (character budget: mac_cpu.py and main2.py, token budget:    *)
(* windows_cuda.py), the per-chunk synthesis loop generate_long_audio, the *)
(* assembler combine_audio_files and the __main__ driver.                  *)
(*                                                                         *)
(* Strings are sequences of one-character strings.  main2.py repeats       *)
(* mac_cpu.py line for line (other defaults, other messages), so the       *)
(* character pipeline is modelled once, from mac_cpu.py.                    *)
(***************************************************************************)
EXTENDS Integers, Sequences, FiniteSets

VARIABLES strategy, text, max_size, sentences, idx, current_chunk, chunks, pc,
          script, i, calls, failed, wav_ms, audio_files,
          j, decode_calls, decoded_ok, combined_ms,
          export_calls, output_exists, output_ms, report

vars == <<strategy, text, max_size, sentences, idx, current_chunk, chunks, pc,
          script, i, calls, failed, wav_ms, audio_files,
          j, decode_calls, decoded_ok, combined_ms,
          export_calls, output_exists, output_ms, report>>

segVars == <<strategy, text, max_size, sentences, idx, current_chunk, chunks>>

pipeVars == <<script, i, calls, failed, wav_ms, audio_files,
              j, decode_calls, decoded_ok, combined_ms,
              export_calls, output_exists, output_ms, report>>

(* ------------------------------ bounds -------------------------------- *)
MaxLen == 7
MaxSize == 4
MaxTokens == 6
MaxPipeLen == 5
MaxPipeSize == 3
MaxDur == 2

Alphabet == {"a", ".", ",", " "}
SentenceAlphabet == {"a", ".", " "}

Texts == UNION {[1..n -> Alphabet] : n \in 0..MaxLen}
PipeTexts == UNION {[1..n -> SentenceAlphabet] : n \in 0..MaxPipeLen}

(* --------------------------- string helpers --------------------------- *)
IsWs(c) == c \in {" ", "\t", "\n", "\r"}
IsTerminal(c) == c \in {".", "!", "?"}
IsDelim(c) == c \in {",", ";", ":"}

RECURSIVE LStrip(_)
LStrip(s) ==
  IF s # <<>> /\ IsWs(Head(s)) THEN LStrip(Tail(s)) ELSE s

RECURSIVE RStrip(_)
RStrip(s) ==
  IF s # <<>> /\ IsWs(s[Len(s)]) THEN RStrip(SubSeq(s, 1, Len(s) - 1)) ELSE s

Strip(s) == LStrip(RStrip(s))

RECURSIVE WsRunEnd(_, _)
WsRunEnd(t, p) ==
  IF p <= Len(t) /\ IsWs(t[p]) THEN WsRunEnd(t, p + 1) ELSE p

RECURSIVE SplitFrom(_, _, _, _)
SplitFrom(t, p, piece, acc) ==
  IF p > Len(t) THEN Append(acc, piece)
  ELSE IF IsWs(t[p]) /\ p > 1 /\ IsTerminal(t[p - 1])
       THEN SplitFrom(t, WsRunEnd(t, p), <<>>, Append(acc, piece))
       ELSE SplitFrom(t, p + 1, Append(piece, t[p]), acc)

SplitSentences(t) == SplitFrom(t, 1, <<>>, <<>>)

RECURSIVE ClausesFrom(_, _, _, _)
ClausesFrom(s, p, piece, acc) ==
  IF p > Len(s) THEN Append(acc, piece)
  ELSE IF IsDelim(s[p])
       THEN ClausesFrom(s, p + 1, <<>>, acc \o <<piece, <<s[p]>>>>)
       ELSE ClausesFrom(s, p + 1, Append(piece, s[p]), acc)

RECURSIVE ClausesDropDelims(_, _, _, _)
ClausesDropDelims(s, p, piece, acc) ==
  IF p > Len(s) THEN Append(acc, piece)
  ELSE IF IsDelim(s[p])
       THEN ClausesDropDelims(s, p + 1, <<>>, Append(acc, piece))
       ELSE ClausesDropDelims(s, p + 1, Append(piece, s[p]), acc)

SplitClausesNoCapture(s) == ClausesDropDelims(s, 1, <<>>, <<>>)

SplitClauses(s) == ClausesFrom(s, 1, <<>>, <<>>)

(* ----------------- character segmenter: smart_chunk_text -------------- *)
FitsOffByTwo(cur, piece, M) == Len(cur) + Len(piece) <= M + 1

Fits(cur, piece, M) == Len(cur) + Len(piece) + 1 <= M

RECURSIVE PackClauses(_, _, _, _, _)
PackClauses(clauses, k, chs, cur, M) ==
  IF k > Len(clauses) THEN [chunks |-> chs, current_chunk |-> cur]
  ELSE IF Fits(cur, clauses[k], M)
       THEN PackClauses(clauses, k + 1, chs, cur \o clauses[k], M)
       ELSE PackClauses(clauses, k + 1, Append(chs, Strip(cur)), clauses[k], M)

ProcessSentence(chs, cur, s, M) ==
  IF Strip(s) = <<>> THEN [chunks |-> chs, current_chunk |-> cur]
  ELSE IF Fits(cur, s, M)
       THEN [chunks |-> chs, current_chunk |-> cur \o s \o <<" ">>]
       ELSE IF Len(s) > M
            THEN PackClauses(SplitClauses(s), 1, chs, cur, M)
            ELSE [chunks |-> Append(chs, Strip(cur)),
                  current_chunk |-> s \o <<" ">>]

FinalFlush(chs, cur) ==
  IF cur # <<>> THEN Append(chs, Strip(cur)) ELSE chs

RECURSIVE ChunkLoop(_, _, _, _, _)
ChunkLoop(ss, k, chs, cur, M) ==
  IF k > Len(ss) THEN FinalFlush(chs, cur)
  ELSE LET r == ProcessSentence(chs, cur, ss[k], M)
       IN ChunkLoop(ss, k + 1, r.chunks, r.current_chunk, M)

smart_chunk_text(t, M) == ChunkLoop(SplitSentences(t), 1, <<>>, <<>>, M)

(* --------- token segmenter: smart_chunk_text_token_limit -------------- *)
(* tokenizer.encode is the mbart-large-50 tokenizer: one token per word,   *)
(* one per punctuation mark, framed by the language code and </s>.         *)
RECURSIVE CountTokens(_, _, _)
CountTokens(s, p, inWord) ==
  IF p > Len(s) THEN 0
  ELSE IF IsWs(s[p]) THEN CountTokens(s, p + 1, FALSE)
  ELSE IF IsTerminal(s[p]) \/ IsDelim(s[p])
       THEN 1 + CountTokens(s, p + 1, FALSE)
       ELSE (IF inWord THEN 0 ELSE 1) + CountTokens(s, p + 1, TRUE)

tokenizer_encode_len(s) == CountTokens(s, 1, FALSE) + 2

TempChunk(cur, s) == Strip(cur \o <<" ">> \o s)

TokenProcessSentence(chs, cur, s, M) ==
  IF tokenizer_encode_len(TempChunk(cur, s)) <= M
  THEN [chunks |-> chs, current_chunk |-> TempChunk(cur, s)]
  ELSE [chunks |-> IF cur # <<>> THEN Append(chs, Strip(cur)) ELSE chs,
        current_chunk |-> s]

RECURSIVE TokenChunkLoop(_, _, _, _, _)
TokenChunkLoop(ss, k, chs, cur, M) ==
  IF k > Len(ss) THEN FinalFlush(chs, cur)
  ELSE LET r == TokenProcessSentence(chs, cur, ss[k], M)
       IN TokenChunkLoop(ss, k + 1, r.chunks, r.current_chunk, M)

smart_chunk_text_token_limit(t, M) ==
  TokenChunkLoop(SplitSentences(t), 1, <<>>, <<>>, M)

(* ------------------- segmenter as a state machine --------------------- *)
PipeIdle ==
  /\ script = "none" /\ i = 0 /\ calls = <<>> /\ failed = {}
  /\ wav_ms = <<>> /\ audio_files = <<>> /\ j = 0 /\ decode_calls = 0
  /\ decoded_ok = {} /\ combined_ms = 0 /\ export_calls = 0
  /\ output_exists = FALSE /\ output_ms = 0 /\ report = "none"

InitSeg ==
  /\ strategy \in {"characters", "tokens"}
  /\ text \in Texts
  /\ max_size \in 1..(IF strategy = "characters" THEN MaxSize ELSE MaxTokens)
  /\ sentences = SplitSentences(text)
  /\ idx = 1
  /\ current_chunk = <<>>
  /\ chunks = <<>>
  /\ pc = "loop"
  /\ PipeIdle

InLoop(strat) == pc = "loop" /\ strategy = strat /\ idx <= Len(sentences)

Advance(r) ==
  /\ chunks' = r.chunks
  /\ current_chunk' = r.current_chunk
  /\ idx' = idx + 1
  /\ UNCHANGED <<strategy, text, max_size, sentences, pc>>
  /\ UNCHANGED pipeVars

SkipBlank ==
  /\ InLoop("characters")
  /\ Strip(sentences[idx]) = <<>>
  /\ Advance(ProcessSentence(chunks, current_chunk, sentences[idx], max_size))

AppendSentence ==
  /\ InLoop("characters")
  /\ Strip(sentences[idx]) # <<>>
  /\ Fits(current_chunk, sentences[idx], max_size)
  /\ Advance(ProcessSentence(chunks, current_chunk, sentences[idx], max_size))

SplitOversized ==
  /\ InLoop("characters")
  /\ Strip(sentences[idx]) # <<>>
  /\ ~Fits(current_chunk, sentences[idx], max_size)
  /\ Len(sentences[idx]) > max_size
  /\ Advance(ProcessSentence(chunks, current_chunk, sentences[idx], max_size))

CloseAndStart ==
  /\ InLoop("characters")
  /\ Strip(sentences[idx]) # <<>>
  /\ ~Fits(current_chunk, sentences[idx], max_size)
  /\ Len(sentences[idx]) <= max_size
  /\ Advance(ProcessSentence(chunks, current_chunk, sentences[idx], max_size))

TokenAppend ==
  /\ InLoop("tokens")
  /\ tokenizer_encode_len(TempChunk(current_chunk, sentences[idx])) <= max_size
  /\ Advance(TokenProcessSentence(chunks, current_chunk, sentences[idx], max_size))

TokenClose ==
  /\ InLoop("tokens")
  /\ tokenizer_encode_len(TempChunk(current_chunk, sentences[idx])) > max_size
  /\ Advance(TokenProcessSentence(chunks, current_chunk, sentences[idx], max_size))

ReturnChunks ==
  /\ pc = "loop"
  /\ idx > Len(sentences)
  /\ chunks' = FinalFlush(chunks, current_chunk)
  /\ pc' = "done"
  /\ UNCHANGED <<strategy, text, max_size, sentences, idx, current_chunk>>
  /\ UNCHANGED pipeVars

NextSeg ==
  \/ SkipBlank
  \/ AppendSentence
  \/ SplitOversized
  \/ CloseAndStart
  \/ TokenAppend
  \/ TokenClose
  \/ ReturnChunks

SpecSeg == InitSeg /\ [][NextSeg]_vars

(* ---------- pipeline: generate_long_audio, combine, __main__ ---------- *)
(* A chunk file chunk_000i.wav is named by its index i.  The chunk budget  *)
(* passed to the segmenter (2400, 2000 or 400 in the scripts) is drawn     *)
(* from a range scaled to the bounded texts.  The outcome of tts_to_file   *)
(* and of AudioSegment.from_wav (success or exception, and the length of   *)
(* the audio) is the environment's choice.  gc.collect() has no state.     *)
Scripts == {"mac_cpu", "windows_cuda"}

SilenceMs(scr) == IF scr = "windows_cuda" THEN 400 ELSE 500

SegmentFor(scr, t, M) ==
  IF scr = "windows_cuda"
  THEN smart_chunk_text_token_limit(t, M)
  ELSE smart_chunk_text(t, M)

InitPipe ==
  /\ script \in Scripts
  /\ strategy = (IF script = "windows_cuda" THEN "tokens" ELSE "characters")
  /\ text \in PipeTexts
  /\ max_size \in 1..MaxPipeSize
  /\ sentences = <<>> /\ idx = 1 /\ current_chunk = <<>>
  /\ chunks = SegmentFor(script, text, max_size)
  /\ pc = "synth"
  /\ i = 0 /\ calls = <<>> /\ failed = {}
  /\ wav_ms = <<>> /\ audio_files = <<>> /\ j = 0 /\ decode_calls = 0
  /\ decoded_ok = {} /\ combined_ms = 0 /\ export_calls = 0
  /\ output_exists = FALSE /\ output_ms = 0 /\ report = "none"

SynthOk ==
  /\ pc = "synth" /\ i < Len(chunks)
  /\ \E d \in 1..MaxDur :
       wav_ms' = [k \in DOMAIN wav_ms \cup {i} |->
                    IF k = i THEN d ELSE wav_ms[k]]
  /\ calls' = Append(calls, i)
  /\ audio_files' = Append(audio_files, i)
  /\ i' = i + 1
  /\ UNCHANGED segVars
  /\ UNCHANGED <<pc, script, failed, j, decode_calls, decoded_ok, combined_ms,
                 export_calls, output_exists, output_ms, report>>

SynthFailAbort ==
  /\ pc = "synth" /\ i < Len(chunks)
  /\ calls' = Append(calls, i)
  /\ failed' = failed \cup {i}
  /\ i' = Len(chunks)
  /\ UNCHANGED segVars
  /\ UNCHANGED <<pc, script, wav_ms, audio_files, j, decode_calls, decoded_ok,
                 combined_ms, export_calls, output_exists, output_ms, report>>

SynthFail ==
  /\ pc = "synth" /\ i < Len(chunks)
  /\ calls' = Append(calls, i)
  /\ failed' = failed \cup {i}
  /\ i' = i + 1
  /\ UNCHANGED segVars
  /\ UNCHANGED <<pc, script, wav_ms, audio_files, j, decode_calls, decoded_ok,
                 combined_ms, export_calls, output_exists, output_ms, report>>

ReturnAudioFiles ==
  /\ pc = "synth" /\ i = Len(chunks)
  /\ pc' = "main"
  /\ UNCHANGED segVars
  /\ UNCHANGED pipeVars

AlwaysAssemble(story_chunks) == TRUE

ShouldAssemble(story_chunks) == story_chunks # <<>>

MainAssemble ==
  /\ pc = "main" /\ ShouldAssemble(audio_files)
  /\ pc' = "combine"
  /\ j' = 1
  /\ combined_ms' = 0
  /\ UNCHANGED segVars
  /\ UNCHANGED <<script, i, calls, failed, wav_ms, audio_files, decode_calls,
                 decoded_ok, export_calls, output_exists, output_ms, report>>

MainFail ==
  /\ pc = "main" /\ ~ShouldAssemble(audio_files)
  /\ pc' = "done"
  /\ report' = "failed"
  /\ UNCHANGED segVars
  /\ UNCHANGED <<script, i, calls, failed, wav_ms, audio_files, j,
                 decode_calls, decoded_ok, combined_ms, export_calls,
                 output_exists, output_ms>>

AppendNoSilence(combined, audio, gap) == combined + audio

AppendWithSilence(combined, audio, gap) == combined + (audio + gap)

DecodeOk ==
  /\ pc = "combine" /\ j <= Len(audio_files)
  /\ decode_calls' = decode_calls + 1
  /\ decoded_ok' = decoded_ok \cup {audio_files[j]}
  /\ combined_ms' = AppendWithSilence(combined_ms, wav_ms[audio_files[j]],
                                      SilenceMs(script))
  /\ j' = j + 1
  /\ UNCHANGED segVars
  /\ UNCHANGED <<pc, script, i, calls, failed, wav_ms, audio_files,
                 export_calls, output_exists, output_ms, report>>

DecodeFail ==
  /\ pc = "combine" /\ j <= Len(audio_files)
  /\ decode_calls' = decode_calls + 1
  /\ j' = j + 1
  /\ UNCHANGED segVars
  /\ UNCHANGED <<pc, script, i, calls, failed, wav_ms, audio_files, decoded_ok,
                 combined_ms, export_calls, output_exists, output_ms, report>>

Export ==
  /\ pc = "combine" /\ j > Len(audio_files)
  /\ export_calls' = export_calls + 1
  /\ output_exists' = TRUE
  /\ output_ms' = combined_ms
  /\ report' = "success"
  /\ pc' = "done"
  /\ UNCHANGED segVars
  /\ UNCHANGED <<script, i, calls, failed, wav_ms, audio_files, j,
                 decode_calls, decoded_ok, combined_ms>>

NextPipe ==
  \/ SynthOk
  \/ SynthFail
  \/ ReturnAudioFiles
  \/ MainAssemble
  \/ MainFail
  \/ DecodeOk
  \/ DecodeFail
  \/ Export

SpecPipe == InitPipe /\ [][NextPipe]_vars

(* ------------------- properties of the segmenters --------------------- *)
Cur == sentences[idx]

Concat(chs) ==
  LET RECURSIVE Cat(_)
      Cat(k) == IF k > Len(chs) THEN <<>> ELSE chs[k] \o Cat(k + 1)
  IN Cat(1)

NonWs(s) == SelectSeq(s, LAMBDA c : ~IsWs(c))

HasDelim(s) == \E p \in DOMAIN s : IsDelim(s[p])

OversizedClauseOf(c, M) ==
  \E n \in DOMAIN sentences :
    /\ Len(sentences[n]) > M
    /\ \E q \in DOMAIN SplitClauses(sentences[n]) :
         /\ Len(SplitClauses(sentences[n])[q]) > M
         /\ Strip(SplitClauses(sentences[n])[q]) = c

ResultingUnit(cur, s) ==
  IF Strip(cur) = <<>> THEN Strip(s) ELSE Strip(cur) \o <<" ">> \o Strip(s)

(* C1: every chunk of smart_chunk_text is at most max_chunk_size characters *)
(* long, except a chunk that is one single clause of an oversized sentence  *)
(* whose own length exceeds max_chunk_size.                                 *)
C1_SizeBound ==
  strategy = "characters" =>
    \A k \in DOMAIN chunks :
      Len(chunks[k]) > max_size => OversizedClauseOf(chunks[k], max_size)

C1_Witness ==
  /\ pc = "done" /\ strategy = "characters"
  /\ \E k \in DOMAIN chunks : Len(chunks[k]) > max_size
  /\ \E k \in DOMAIN chunks : Len(chunks[k]) = max_size
  /\ \E k \in DOMAIN chunks : \E p \in DOMAIN chunks[k] : IsWs(chunks[k][p])

(* C2: no chunk returned by smart_chunk_text is the empty string.           *)
C2_NoEmptyChunk ==
  strategy = "characters" => \A k \in DOMAIN chunks : chunks[k] # <<>>

(* C7: the chunks, concatenated in index order with whitespace ignored,     *)
(* spell the input text with whitespace ignored, for both segmenters.       *)
C7_OrderPreserved ==
  pc = "done" => NonWs(Concat(chunks)) = NonWs(text)

C7_Witness ==
  /\ pc = "done" /\ strategy = "characters"
  /\ Len(chunks) >= 3
  /\ \E n \in DOMAIN sentences :
       Len(sentences[n]) > max_size /\ HasDelim(sentences[n])
  /\ \E n \in DOMAIN sentences :
       Strip(sentences[n]) # <<>> /\ Len(sentences[n]) <= max_size

(* C8: a chunk of smart_chunk_text_token_limit exceeds max_tokens only when *)
(* it is one single clause (a delimiter, or a delimiter-free piece), since  *)
(* an oversized sentence is split on ',', ';', ':'.                         *)
C8_TokenClauseFallback ==
  (pc = "done" /\ strategy = "tokens") =>
    \A k \in DOMAIN chunks :
      tokenizer_encode_len(chunks[k]) > max_size =>
        (Len(chunks[k]) = 1 \/ ~HasDelim(chunks[k]))

(* C9: a non-blank sentence no longer than max_chunk_size is appended to    *)
(* the accumulator exactly when accumulator, one space and the sentence     *)
(* together do not exceed max_chunk_size; otherwise the accumulator is      *)
(* closed.                                                                  *)
C9_PackingRule ==
  [][(/\ InLoop("characters")
      /\ Strip(Cur) # <<>>
      /\ Len(Cur) <= max_size)
     => ((/\ chunks' = chunks
          /\ current_chunk' = current_chunk \o Cur \o <<" ">>)
         <=> Len(ResultingUnit(current_chunk, Cur)) <= max_size)]_vars

(* C10: a sentence appended to an accumulator that already holds text is    *)
(* separated from that text by a single space, also after the clause-wise   *)
(* packed tail of an oversized sentence.                                    *)
C10_SingleSpace ==
  [][(/\ InLoop("characters")
      /\ Strip(Cur) # <<>>
      /\ Fits(current_chunk, Cur, max_size)
      /\ Strip(current_chunk) # <<>>)
     => current_chunk' = RStrip(current_chunk) \o <<" ">> \o Cur \o <<" ">>]_vars

(* --------------------- properties of the pipeline --------------------- *)
AfterSynthesis == pc \in {"main", "combine", "done"}

AllUnits == 0..(Len(chunks) - 1)

RECURSIVE SumDur(_)
SumDur(S) ==
  IF S = {} THEN 0
  ELSE LET f == CHOOSE x \in S : TRUE IN wav_ms[f] + SumDur(S \ {f})

(* C3: generate_long_audio calls the synthesis once per unit, in index     *)
(* order, whatever failed before, and returns exactly the files of the     *)
(* units that succeeded, in order: N units with f failures give N - f.     *)
C3_PartialFailure ==
  /\ calls = [k \in 1..i |-> k - 1]
  /\ audio_files = SelectSeq(calls, LAMBDA u : u \notin failed)
  /\ AfterSynthesis =>
       /\ i = Len(chunks)
       /\ failed \subseteq AllUnits
       /\ Len(audio_files) = Len(chunks) - Cardinality(failed)

C3_Witness ==
  /\ pc = "main"
  /\ Len(chunks) >= 3
  /\ 0 \notin failed /\ 1 \in failed /\ 2 \notin failed
  /\ audio_files = <<0, 2>>

(* C4 as stated: k decoded segments are joined by k - 1 gaps, none after   *)
(* the last one.                                                           *)
C4_GapsBetween ==
  (pc = "done" /\ output_exists /\ decoded_ok # {}) =>
    output_ms = SumDur(decoded_ok)
                  + (Cardinality(decoded_ok) - 1) * SilenceMs(script)

(* C4 amended: every decoded segment is followed by one gap, the last one  *)
(* too: the track lasts the sum of the decoded durations plus k gaps.      *)
C4_GapAfterEach ==
  /\ combined_ms = SumDur(decoded_ok)
                     + Cardinality(decoded_ok) * SilenceMs(script)
  /\ output_exists => output_ms = combined_ms

C4_Witness ==
  /\ pc = "done" /\ output_exists
  /\ Cardinality(decoded_ok) >= 2
  /\ decode_calls > Cardinality(decoded_ok)

(* C5: when no artifact was appended during assembly, no output file is    *)
(* written and the run is not reported as successful.                      *)
C5_NoEmptyOutput ==
  (pc = "done" /\ decoded_ok = {}) =>
    (~output_exists /\ report # "success")

(* C6: when synthesis failed for every unit, the assembler is never        *)
(* invoked (no decode, no export), no output file exists and the run       *)
(* reports failure.                                                        *)
C6_TotalFailure ==
  (AfterSynthesis /\ failed = AllUnits) =>
    /\ pc # "combine"
    /\ decode_calls = 0 /\ export_calls = 0 /\ ~output_exists
    /\ pc = "done" => report = "failed"

C6_Witness ==
  /\ pc = "done"
  /\ Len(chunks) >= 2
  /\ failed = AllUnits
  /\ report = "failed" /\ ~output_exists

====
